---- MODULE Spec2Model ----
(***************************************************************************)
(* identifyRegistrationError                                               *)
(* (packages/browser/src/helpers/identifyRegistrationError.ts): the        *)
(* classification of an error raised by navigator.credentials.create().    *)
(*                                                                         *)
(* Objects with an identity (errors, abort controllers and signals) live   *)
(* in `heap`, a sequence indexed by object id; `new` appends to it.  Plain *)
(* option dictionaries are values.  A call is one step: from the arguments *)
(* and the ambient hostname it leaves a completion (a returned or a thrown *)
(* reference) and the log of the reads it made, in evaluation order.       *)
(***************************************************************************)
EXTENDS Integers, Sequences, FiniteSets, TLC

VARIABLES
    heap,       \* object id -> object
    error,      \* the `error` argument: a reference into heap
    options,    \* the `options` argument: a dictionary value
    hostname,   \* window.location.hostname
    outcome,    \* the call's completion: pending, return or throw
    reads       \* the reads the call made, in order

vars == <<heap, error, options, hostname, outcome, reads>>

-----------------------------------------------------------------------------
(* Bounds of the enumerated inputs.                                        *)

MaxParams == 2
MaxByteLength == 66

(* Numbers of the program.                                                 *)
MinUserIdLength == 1
MaxUserIdLength == 64

-----------------------------------------------------------------------------
(* JavaScript values.                                                      *)

Undefined == [t |-> "undefined"]
Bool(b) == [t |-> "boolean", v |-> b]
Str(s) == [t |-> "string", v |-> s]
Num(n) == [t |-> "number", v |-> n]
Dict(fields) == [t |-> "dict", v |-> fields]
Arr(elems) == [t |-> "array", v |-> elems]
Ref(id) == [t |-> "ref", id |-> id]

\* a === b: same type and same value; objects by reference.
StrictEquals(a, b) ==
    IF a.t # b.t THEN FALSE
    ELSE IF a.t = "undefined" THEN TRUE
    ELSE IF a.t = "ref" THEN a.id = b.id
    ELSE a.v = b.v

\* !v is false exactly for the truthy values.
Truthy(v) ==
    IF v.t = "undefined" THEN FALSE
    ELSE IF v.t = "boolean" THEN v.v
    ELSE IF v.t = "string" THEN v.v # ""
    ELSE TRUE

\* The marker of a property read on undefined, which raises a TypeError.
Abrupt == [t |-> "abrupt"]

\* base.field
Member(base, field) ==
    IF base.t \in {"undefined", "abrupt"} THEN Abrupt
    ELSE IF base.t = "dict" /\ field \in DOMAIN base.v THEN base.v[field]
    ELSE Undefined

\* base?.field
OptMember(base, field) ==
    IF base.t = "undefined" THEN Undefined ELSE Member(base, field)

\* `${v}` in a template literal.
TemplateString(v) ==
    IF v.t = "string" THEN v.v
    ELSE IF v.t = "boolean" THEN (IF v.v THEN "true" ELSE "false")
    ELSE IF v.t = "undefined" THEN "undefined"
    ELSE "[object Object]"

-----------------------------------------------------------------------------
(* Objects.                                                                *)

\* Error(message)
NewError(message) ==
    [class |-> "Error", name |-> "Error", message |-> message]

\* The TypeError the engine raises for a property read on undefined.
NewTypeError ==
    [class |-> "Error", name |-> "TypeError",
     message |-> "Cannot read properties of undefined"]

\* new WebAuthnError(message, cause)
NewWebAuthnError(message, cause) ==
    [class |-> "WebAuthnError", message |-> message, cause |-> cause]

\* The signal of a new AbortController: not aborted.
NewAbortSignal == [class |-> "AbortSignal", aborted |-> FALSE]

\* The domain-validity predicate: a total function of the string.
isValidDomain(domain) == domain \in {"localhost", "example.com", "rp.example.com"}

-----------------------------------------------------------------------------
(* Completions of a block of the function.                                 *)

Return(h, ref, rd) == [kind |-> "return", value |-> ref, heap |-> h, reads |-> rd]
Throw(h, obj, rd) ==
    [kind |-> "throw", value |-> Ref(Len(h) + 1), heap |-> Append(h, obj), reads |-> rd]
Normal(h, rd) == [kind |-> "normal", value |-> Undefined, heap |-> h, reads |-> rd]

\* return new WebAuthnError(message, error)
ReturnDiagnostic(h, message, err, rd) ==
    Return(Append(h, NewWebAuthnError(message, err)), Ref(Len(h) + 1), rd)

-----------------------------------------------------------------------------
(* The branches of the chain on error.name.  Each takes the heap and the   *)
(* values it reads and yields a completion; "normal" falls to the final    *)
(* `return error`.                                                         *)

\* error.name === 'AbortError'
AbortErrorBranch(h, err, opts) ==
    LET signal == Member(opts, "signal")
        fresh == Ref(Len(h) + 1)
        h1 == Append(Append(h, NewAbortSignal),
                     [class |-> "AbortController", signal |-> fresh])
        rd == <<"options.signal">>
    IN  IF StrictEquals(signal, fresh)
        THEN ReturnDiagnostic(h1, "Registration ceremony was sent an abort signal", err, rd)
        ELSE Normal(h1, rd)

\* The ConstraintError branch with the two checks in the other order.
ConstraintErrorBranchVerificationFirst(h, err, publicKey) ==
    LET selection == Member(publicKey, "authenticatorSelection")
        requireResidentKey == OptMember(selection, "requireResidentKey")
        userVerification == OptMember(selection, "userVerification")
        rd == <<"publicKey.authenticatorSelection">>
    IN  IF StrictEquals(userVerification, Str("required"))
        THEN ReturnDiagnostic(h,
                "User verification was required but no available authenticator supported it",
                err, rd)
        ELSE IF StrictEquals(requireResidentKey, Bool(TRUE))
        THEN ReturnDiagnostic(h,
                "Discoverable credentials were required but no available authenticator supported it",
                err, rd)
        ELSE Normal(h, rd)

\* The ConstraintError branch reading authenticatorSelection.x without `?.`.
ConstraintErrorBranchNoOptionalChaining(h, err, publicKey) ==
    LET selection == Member(publicKey, "authenticatorSelection")
        requireResidentKey == Member(selection, "requireResidentKey")
        userVerification == Member(selection, "userVerification")
        rd == <<"publicKey.authenticatorSelection">>
    IN  IF requireResidentKey.t = "abrupt" THEN Throw(h, NewTypeError, rd)
        ELSE IF StrictEquals(requireResidentKey, Bool(TRUE))
        THEN ReturnDiagnostic(h,
                "Discoverable credentials were required but no available authenticator supported it",
                err, rd)
        ELSE IF userVerification.t = "abrupt" THEN Throw(h, NewTypeError, rd)
        ELSE IF StrictEquals(userVerification, Str("required"))
        THEN ReturnDiagnostic(h,
                "User verification was required but no available authenticator supported it",
                err, rd)
        ELSE Normal(h, rd)

\* error.name === 'ConstraintError'
ConstraintErrorBranch(h, err, publicKey) ==
    LET selection == Member(publicKey, "authenticatorSelection")
        requireResidentKey == OptMember(selection, "requireResidentKey")
        userVerification == OptMember(selection, "userVerification")
        rd == <<"publicKey.authenticatorSelection">>
    IN  IF requireResidentKey.t = "abrupt" THEN Throw(h, NewTypeError, rd)
        ELSE IF StrictEquals(requireResidentKey, Bool(TRUE))
        THEN ReturnDiagnostic(h,
                "Discoverable credentials were required but no available authenticator supported it",
                err, rd)
        ELSE IF userVerification.t = "abrupt" THEN Throw(h, NewTypeError, rd)
        ELSE IF StrictEquals(userVerification, Str("required"))
        THEN ReturnDiagnostic(h,
                "User verification was required but no available authenticator supported it",
                err, rd)
        ELSE Normal(h, rd)

\* The InvalidStateError branch left empty.
InvalidStateErrorBranchEmpty(h, err) == Normal(h, <<>>)

\* error.name === 'InvalidStateError'
InvalidStateErrorBranch(h, err) ==
    ReturnDiagnostic(h, "The authenticator was previously registered", err, <<>>)

\* The NotAllowedError branch wrapping the error like its neighbours.
NotAllowedErrorBranchWrapping(h, err) ==
    ReturnDiagnostic(h, "The operation was not allowed", err, <<>>)

\* error.name === 'NotAllowedError'
NotAllowedErrorBranch(h, err) == Normal(h, <<>>)

\* pubKeyCredParams.filter(param => param.type === 'public-key')
FilterPublicKey(params) == SelectSeq(params, LAMBDA param : param.type = "public-key")

\* The NotSupportedError branch testing the unfiltered list's length.
NotSupportedErrorBranchUnfiltered(h, err, publicKey) ==
    LET params == Member(publicKey, "pubKeyCredParams")
        rd == <<"publicKey.pubKeyCredParams">>
    IN  IF params.t # "array" THEN Throw(h, NewTypeError, rd)
        ELSE IF Len(params.v) = 0
             THEN ReturnDiagnostic(h,
                    "No entry in pubKeyCredParams was of type \"public-key\"", err, rd)
             ELSE ReturnDiagnostic(h,
                    "No available authenticator supported any of the specified pubKeyCredParams algorithms",
                    err, rd)

\* error.name === 'NotSupportedError'
NotSupportedErrorBranch(h, err, publicKey) ==
    LET params == Member(publicKey, "pubKeyCredParams")
        rd == <<"publicKey.pubKeyCredParams">>
    IN  IF params.t # "array" THEN Throw(h, NewTypeError, rd)
        ELSE LET validPubKeyCredParams == FilterPublicKey(params.v)
             IN  IF Len(validPubKeyCredParams) = 0
                 THEN ReturnDiagnostic(h,
                        "No entry in pubKeyCredParams was of type \"public-key\"", err, rd)
                 ELSE ReturnDiagnostic(h,
                        "No available authenticator supported any of the specified pubKeyCredParams algorithms",
                        err, rd)

\* The SecurityError branch testing rp.id before the domain's validity.
SecurityErrorBranchRpIdFirst(h, err, publicKey, host) ==
    LET effectiveDomain == host
        rpId == Member(Member(publicKey, "rp"), "id")
        rd == <<"window.location.hostname", "publicKey.rp">>
    IN  IF rpId.t = "abrupt" THEN Throw(h, NewTypeError, rd)
        ELSE IF ~StrictEquals(rpId, Str(effectiveDomain))
        THEN ReturnDiagnostic(h,
                "The RP ID \"" \o TemplateString(rpId) \o "\" is invalid for this domain",
                err, rd)
        ELSE IF ~isValidDomain(effectiveDomain)
        THEN ReturnDiagnostic(h, host \o " is an invalid domain", err,
                              rd \o <<"window.location.hostname">>)
        ELSE Normal(h, rd)

\* error.name === 'SecurityError'
SecurityErrorBranch(h, err, publicKey, host) ==
    LET effectiveDomain == host
        rpId == Member(Member(publicKey, "rp"), "id")
        rd == <<"window.location.hostname">>
    IN  IF ~isValidDomain(effectiveDomain)
        THEN ReturnDiagnostic(h, host \o " is an invalid domain", err,
                              rd \o <<"window.location.hostname">>)
        ELSE IF rpId.t = "abrupt" THEN Throw(h, NewTypeError, rd \o <<"publicKey.rp">>)
        ELSE IF ~StrictEquals(rpId, Str(effectiveDomain))
        THEN ReturnDiagnostic(h,
                "The RP ID \"" \o TemplateString(rpId) \o "\" is invalid for this domain",
                err, rd \o <<"publicKey.rp">>)
        ELSE Normal(h, rd \o <<"publicKey.rp">>)

\* The TypeError branch with the upper comparison off by one (>= for >).
TypeErrorBranchOffByOne(h, err, publicKey) ==
    LET byteLength == Member(Member(Member(publicKey, "user"), "id"), "byteLength")
        rd == <<"publicKey.user">>
    IN  IF byteLength.t = "abrupt" THEN Throw(h, NewTypeError, rd)
        ELSE IF byteLength.t = "number"
                /\ (byteLength.v < MinUserIdLength \/ byteLength.v >= MaxUserIdLength)
        THEN ReturnDiagnostic(h, "User ID was not between 1 and 64 characters", err, rd)
        ELSE Normal(h, rd)

\* error.name === 'TypeError'
TypeErrorBranch(h, err, publicKey) ==
    LET byteLength == Member(Member(Member(publicKey, "user"), "id"), "byteLength")
        rd == <<"publicKey.user">>
    IN  IF byteLength.t = "abrupt" THEN Throw(h, NewTypeError, rd)
        ELSE IF byteLength.t = "number"
                /\ (byteLength.v < MinUserIdLength \/ byteLength.v > MaxUserIdLength)
        THEN ReturnDiagnostic(h, "User ID was not between 1 and 64 characters", err, rd)
        ELSE Normal(h, rd)

\* error.name === 'UnknownError'
UnknownErrorBranch(h, err) ==
    ReturnDiagnostic(h,
        "The authenticator was unable to process the specified options, or could not create a new credential",
        err, <<>>)

\* The names compared with error.name, in the order of the else-if chain.
ErrorNameChain ==
    <<"AbortError", "ConstraintError", "InvalidStateError", "NotAllowedError",
      "NotSupportedError", "SecurityError", "TypeError", "UnknownError">>

\* One read of error.name for every comparison evaluated: up to the first
\* match, or all of them.
NameReads(name) ==
    LET hits == {i \in 1..Len(ErrorNameChain) : ErrorNameChain[i] = name}
        n == IF hits = {} THEN Len(ErrorNameChain)
             ELSE CHOOSE i \in hits : \A j \in hits : i <= j
    IN  [i \in 1..n |-> "error.name"]

\* The else-if chain on error.name.
Dispatch(h, err, opts, publicKey, host) ==
    LET name == h[err.id].name
        c == IF name = "AbortError" THEN AbortErrorBranch(h, err, opts)
             ELSE IF name = "ConstraintError" THEN ConstraintErrorBranch(h, err, publicKey)
             ELSE IF name = "InvalidStateError" THEN InvalidStateErrorBranch(h, err)
             ELSE IF name = "NotAllowedError" THEN NotAllowedErrorBranch(h, err)
             ELSE IF name = "NotSupportedError" THEN NotSupportedErrorBranch(h, err, publicKey)
             ELSE IF name = "SecurityError" THEN SecurityErrorBranch(h, err, publicKey, host)
             ELSE IF name = "TypeError" THEN TypeErrorBranch(h, err, publicKey)
             ELSE IF name = "UnknownError" THEN UnknownErrorBranch(h, err)
             ELSE Normal(h, <<>>)
    IN  [c EXCEPT !.reads = NameReads(name) \o @]

\* A copy of the error returned in place of the error.
ReturnCopy(h, err, rd) == Return(Append(h, h[err.id]), Ref(Len(h) + 1), rd)

\* return error
ReturnOriginal(h, err, rd) == Return(h, err, rd)

\* The guard on publicKey left out.
PublicKeyGuardMissing(h, publicKey, rd) == Normal(h, rd)

\* if (!publicKey) throw Error(...)
PublicKeyGuard(h, publicKey, rd) ==
    IF ~Truthy(publicKey)
    THEN Throw(h, NewError("options was missing required publicKey property"), rd)
    ELSE Normal(h, rd)

identifyRegistrationError(h, err, opts, host) ==
    LET publicKey == Member(opts, "publicKey")
        guard == PublicKeyGuard(h, publicKey, <<"options.publicKey">>)
    IN  IF guard.kind = "throw" THEN guard
        ELSE LET c == Dispatch(guard.heap, err, opts, publicKey, host)
             IN  IF c.kind = "normal"
                 THEN ReturnOriginal(c.heap, err, guard.reads \o c.reads)
                 ELSE [c EXCEPT !.reads = guard.reads \o @]

-----------------------------------------------------------------------------
(* The arguments a caller can pass, by the declared types                  *)
(* (CredentialCreationOptions: publicKey and signal optional; in publicKey *)
(* rp, user and pubKeyCredParams required, authenticatorSelection and      *)
(* rp.id optional).                                                        *)

ErrorNames ==
    {ErrorNameChain[i] : i \in 1..Len(ErrorNameChain)} \cup {"OperationError", "DataError"}

AuthenticatorSelections ==
    {Undefined} \cup
    {Dict([requireResidentKey |-> r, userVerification |-> u]) :
        r \in {Undefined, Bool(TRUE), Bool(FALSE)},
        u \in {Undefined, Str("required"), Str("preferred"), Str("discouraged")}}

ParamEntries == [type : {"public-key", "other"}, alg : {-7, -257}]

PubKeyCredParams(maxLen) ==
    {Arr(s) : s \in UNION {[1..n -> ParamEntries] : n \in 0..maxLen}}

RpIds == {Undefined, Str("example.com"), Str("rp.example.com"), Str("exa mple")}

Hostnames == {"example.com", "exa mple"}

UserIds(lengths) == {Dict([byteLength |-> Num(n)]) : n \in lengths}

BoundaryLengths ==
    {0, MinUserIdLength, MaxUserIdLength, MaxUserIdLength + 1}

PublicKeys(selections, params, rpIds, lengths) ==
    {Dict([authenticatorSelection |-> sel, pubKeyCredParams |-> p,
           rp |-> Dict([id |-> rp]), user |-> Dict([id |-> uid])]) :
        sel \in selections, p \in params, rp \in rpIds, uid \in UserIds(lengths)}

\* The caller's signal: none, one never aborted, one aborted.
SignalStates == {"none", "live", "aborted"}

LowLevelError(name) ==
    [class |-> "DOMException", name |-> name, message |-> "The operation failed"]

InitWith(names, publicKeys, hosts, signals) ==
    /\ \E name \in names, sig \in signals :
        /\ heap = IF sig = "none" THEN <<LowLevelError(name)>>
                  ELSE <<LowLevelError(name),
                         [class |-> "AbortSignal", aborted |-> (sig = "aborted")]>>
        /\ \E pk \in publicKeys \cup {Undefined} :
            options = Dict([publicKey |-> pk,
                            signal |-> IF sig = "none" THEN Undefined ELSE Ref(2)])
    /\ error = Ref(1)
    /\ hostname \in hosts
    /\ outcome = [kind |-> "pending"]
    /\ reads = <<>>

Init ==
    InitWith(ErrorNames,
             PublicKeys(AuthenticatorSelections, PubKeyCredParams(MaxParams), RpIds,
                        BoundaryLengths),
             Hostnames, SignalStates)

\* Every user.id length up to MaxByteLength, the other fields from smaller sets.
InitUserId ==
    InitWith(ErrorNames,
             PublicKeys({Undefined, Dict([requireResidentKey |-> Bool(TRUE),
                                          userVerification |-> Str("required")])},
                        PubKeyCredParams(1), {Str("example.com")}, 0..MaxByteLength),
             Hostnames, {"none"})

\* The call identifyRegistrationError({ error, options }).
Identify ==
    /\ outcome.kind = "pending"
    /\ LET c == identifyRegistrationError(heap, error, options, hostname)
       IN  /\ heap' = c.heap
           /\ outcome' = [kind |-> c.kind, value |-> c.value]
           /\ reads' = c.reads
    /\ UNCHANGED <<error, options, hostname>>

Next == Identify

Spec == Init /\ [][Next]_vars

SpecUserId == InitUserId /\ [][Next]_vars

-----------------------------------------------------------------------------
(* What the claims speak of.                                               *)

Called == outcome.kind # "pending"
Name == heap[error.id].name
PublicKey == options.v.publicKey
HasPublicKey == PublicKey.t = "dict"
Signal == options.v.signal
HandledNames == {ErrorNameChain[i] : i \in 1..Len(ErrorNameChain)}

\* The call returned the very object it was given as `error`.
ReturnedOriginal == outcome.kind = "return" /\ outcome.value = error

\* The call returned another object: a WebAuthnError with this message, whose
\* cause is the object given as `error`.
ReturnedDiagnostic(message) ==
    /\ outcome.kind = "return"
    /\ outcome.value # error
    /\ outcome.value.id \in DOMAIN heap
    /\ heap[outcome.value.id].class = "WebAuthnError"
    /\ heap[outcome.value.id].message = message
    /\ heap[outcome.value.id].cause = error

\* C1: a call with options.publicKey present returns either the very error
\* object it was given or a WebAuthnError constructed by the call (an object
\* that did not exist before it) whose cause is that error object; and every
\* object that existed before the call, the error among them, and the options
\* are after the call what they were before it.
C1_ResultIsOriginalOrNewWrapper ==
    [][HasPublicKey =>
        /\ outcome'.kind = "return"
        /\ \/ outcome'.value = error
           \/ /\ outcome'.value.id \notin DOMAIN heap
              /\ outcome'.value.id \in DOMAIN heap'
              /\ heap'[outcome'.value.id].class = "WebAuthnError"
              /\ heap'[outcome'.value.id].cause = error
        /\ error' = error
        /\ options' = options
        /\ \A id \in DOMAIN heap : id \in DOMAIN heap' /\ heap'[id] = heap[id]]_vars

C1_Witness ==
    /\ Called /\ HasPublicKey
    /\ outcome.kind = "return" /\ outcome.value # error
    /\ heap[outcome.value.id].cause = error
    /\ Signal.t = "ref"

\* C2: with options.publicKey absent the call throws, whatever error.name is:
\* the thrown object is a plain Error (no WebAuthnError), nothing is returned,
\* and the only read made before the throw is that of options.publicKey (no
\* read of error.name, none of window.location.hostname).
C2_MissingPublicKeyThrows ==
    (Called /\ ~HasPublicKey) =>
        /\ outcome.kind = "throw"
        /\ heap[outcome.value.id].class = "Error"
        /\ heap[outcome.value.id].name = "Error"
        /\ heap[outcome.value.id].message = "options was missing required publicKey property"
        /\ outcome.value # error
        /\ reads = <<"options.publicKey">>

C2_Witness ==
    /\ Called /\ ~HasPublicKey
    /\ Name = "SecurityError"
    /\ outcome.kind = "throw"

\* C3: with options.publicKey present, for error.name 'NotAllowedError' and
\* for every name outside the eight of the chain, the call returns the very
\* error object it was given, whatever the other inputs.
C3_PassThroughNames ==
    (Called /\ HasPublicKey /\ (Name = "NotAllowedError" \/ Name \notin HandledNames))
        => ReturnedOriginal

C3_Witness ==
    /\ Called /\ HasPublicKey
    /\ Name = "NotAllowedError"
    /\ ReturnedOriginal
    /\ ~isValidDomain(hostname)
    /\ PublicKey.v.user.v.id.v.byteLength.v = 0

\* C4: for 'ConstraintError', requireResidentKey === true gives the
\* discoverable-credentials diagnostic, also when userVerification is
\* 'required'; otherwise userVerification === 'required' gives the
\* user-verification diagnostic; otherwise the original error is returned.
C4_ConstraintError ==
    (Called /\ HasPublicKey /\ Name = "ConstraintError") =>
        LET selection == PublicKey.v.authenticatorSelection
            resident == selection.t = "dict"
                        /\ selection.v.requireResidentKey = Bool(TRUE)
            verification == selection.t = "dict"
                            /\ selection.v.userVerification = Str("required")
        IN  IF resident
            THEN ReturnedDiagnostic(
                    "Discoverable credentials were required but no available authenticator supported it")
            ELSE IF verification
            THEN ReturnedDiagnostic(
                    "User verification was required but no available authenticator supported it")
            ELSE ReturnedOriginal

C4_Witness ==
    /\ Called /\ HasPublicKey /\ Name = "ConstraintError"
    /\ PublicKey.v.authenticatorSelection.t = "dict"
    /\ PublicKey.v.authenticatorSelection.v.requireResidentKey = Bool(TRUE)
    /\ PublicKey.v.authenticatorSelection.v.userVerification = Str("required")
    /\ outcome.kind = "return" /\ outcome.value # error

\* C5: for 'SecurityError', a hostname that fails isValidDomain gives
\* '<hostname> is an invalid domain', whether or not rp.id equals it;
\* otherwise an rp.id other than the hostname gives 'The RP ID "<rp.id>" is
\* invalid for this domain'; otherwise the original error is returned.
C5_SecurityError ==
    (Called /\ HasPublicKey /\ Name = "SecurityError") =>
        LET rpId == PublicKey.v.rp.v.id
            shown == IF rpId.t = "string" THEN rpId.v ELSE "undefined"
        IN  IF ~isValidDomain(hostname)
            THEN ReturnedDiagnostic(hostname \o " is an invalid domain")
            ELSE IF rpId # Str(hostname)
            THEN ReturnedDiagnostic("The RP ID \"" \o shown \o "\" is invalid for this domain")
            ELSE ReturnedOriginal

C5_Witness ==
    /\ Called /\ HasPublicKey /\ Name = "SecurityError"
    /\ ~isValidDomain(hostname)
    /\ PublicKey.v.rp.v.id = Str(hostname)
    /\ outcome.kind = "return" /\ outcome.value # error

\* C6: for 'TypeError', the result is the diagnostic 'User ID was not
\* between 1 and 64 characters' exactly when the byte length of user.id is
\* below 1 or above 64, and the original error for every length from 1 to 64.
C6_TypeError ==
    (Called /\ HasPublicKey /\ Name = "TypeError") =>
        LET n == PublicKey.v.user.v.id.v.byteLength.v
        IN  IF n < 1 \/ n > 64
            THEN ReturnedDiagnostic("User ID was not between 1 and 64 characters")
            ELSE ReturnedOriginal

C6_Witness ==
    /\ Called /\ HasPublicKey /\ Name = "TypeError"
    /\ PublicKey.v.user.v.id.v.byteLength.v = 64
    /\ ReturnedOriginal

\* C7: for 'NotSupportedError' the result is always a diagnostic, never the
\* original error: 'No entry in pubKeyCredParams was of type "public-key"'
\* exactly when no entry of pubKeyCredParams has type 'public-key', and 'No
\* available authenticator supported any of the specified pubKeyCredParams
\* algorithms' exactly when some entry has.
C7_NotSupportedError ==
    (Called /\ HasPublicKey /\ Name = "NotSupportedError") =>
        LET params == PublicKey.v.pubKeyCredParams.v
        IN  IF \E i \in DOMAIN params : params[i].type = "public-key"
            THEN ReturnedDiagnostic(
                    "No available authenticator supported any of the specified pubKeyCredParams algorithms")
            ELSE ReturnedDiagnostic("No entry in pubKeyCredParams was of type \"public-key\"")

C7_Witness ==
    /\ Called /\ HasPublicKey /\ Name = "NotSupportedError"
    /\ LET params == PublicKey.v.pubKeyCredParams.v
       IN  /\ \E i \in DOMAIN params : params[i].type # "public-key"
           /\ \A i \in DOMAIN params : params[i].type # "public-key"
    /\ outcome.kind = "return" /\ outcome.value # error

\* C8: for 'AbortError', a call whose options.signal is the signal of an
\* abort controller that was never triggered returns the diagnostic
\* 'Registration ceremony was sent an abort signal' with the error as cause,
\* and a call whose options.signal is an aborted signal returns the original
\* error.
C8_AbortError ==
    (Called /\ HasPublicKey /\ Name = "AbortError" /\ Signal.t = "ref") =>
        IF heap[Signal.id].aborted
        THEN ReturnedOriginal
        ELSE ReturnedDiagnostic("Registration ceremony was sent an abort signal")

\* C9: for 'InvalidStateError' the result is the diagnostic 'The
\* authenticator was previously registered', and for 'UnknownError' the
\* diagnostic 'The authenticator was unable to process the specified
\* options, or could not create a new credential', whatever the publicKey
\* fields, the signal and the hostname are.
C9_UnconditionalDiagnostics ==
    /\ (Called /\ HasPublicKey /\ Name = "InvalidStateError") =>
            ReturnedDiagnostic("The authenticator was previously registered")
    /\ (Called /\ HasPublicKey /\ Name = "UnknownError") =>
            ReturnedDiagnostic(
                "The authenticator was unable to process the specified options, or could not create a new credential")

C9_Witness ==
    /\ Called /\ HasPublicKey /\ Name = "InvalidStateError"
    /\ outcome.kind = "return" /\ outcome.value # error
    /\ Signal.t = "ref" /\ heap[Signal.id].aborted
    /\ ~isValidDomain(hostname)
    /\ PublicKey.v.pubKeyCredParams.v = <<>>

\* C10: a call throws exactly when options.publicKey is absent: with it
\* present the call returns, for every error.name and every publicKey of the
\* declared type.
C10_ThrowsOnlyWithoutPublicKey ==
    Called => (outcome.kind = "throw" <=> ~HasPublicKey)

C10_Witness ==
    /\ Called /\ HasPublicKey /\ Name = "ConstraintError"
    /\ PublicKey.v.authenticatorSelection = Undefined
    /\ Signal = Undefined
    /\ PublicKey.v.rp.v.id = Str("exa mple")
    /\ PublicKey.v.pubKeyCredParams.v = <<>>
    /\ outcome.kind = "return"

====
